---- MODULE Spec2Model ----
(***************************************************************************)
(* A model of ldpc.c, the interactive sum-product LDPC decoder.            *)
(*                                                                         *)
(* Numbers.  The program computes in C doubles.  Two representations are   *)
(* used here, both built from machine integers below 2^31:                 *)
(*                                                                         *)
(*  - a prior (s->channel[i]) is an exact binary64 value in [0,1), held as *)
(*    an integer multiple of 2^-60 in three 20-bit limbs <<h, m, l>>.  The *)
(*    operations process_keys applies to it (x*100, floor, /100, +0.01,    *)
(*    -0.01, <, >) are IEEE-754 round-to-nearest-even operations and are   *)
(*    modelled bit for bit: every product, quotient, sum and difference is *)
(*    rounded to 53 significant bits.                                      *)
(*                                                                         *)
(*  - a log-likelihood ratio or message is a fixed-point integer with 24   *)
(*    fractional bits, or one of the three IEEE specials PINF, NINF, NAN;  *)
(*    a value of tanh() is a fixed-point integer with 28 fractional bits.  *)
(*    exp, log and tanh are computed by range reduction and power series   *)
(*    to within about 1e-6 of the libm results.                            *)
(***************************************************************************)
EXTENDS Integers, Sequences, FiniteSets, TLC

(***************************************************************************)
(* Fixed-point arithmetic for the transcendental part.                     *)
(***************************************************************************)
P14 == 2^14
P20 == 2^20
P24 == 2^24     \* scale of an LLR / message value
P28 == 2^28     \* scale of a probability or a tanh value
P29 == 2^29

\* ln 2 at scale 2^24
LN2 == 11629080

\* IEEE specials of a double holding an LLR
PINF == 2^30
NINF == -(2^30)
NAN  == 2^30 + 1

Abs(x) == IF x < 0 THEN -x ELSE x

\* a*b of two non-negative values at scale 2^28, without leaving 31 bits
Mul28(a, b) ==
  LET ah == a \div P14   al == a % P14
      bh == b \div P14   bl == b % P14
  IN  ah * bh + ((ah * bl + al * bh + ((al * bl) \div P14)) \div P14)

\* the C product t * x of two doubles in [-1,1] (NaN propagates)
SMul28(a, b) ==
  IF a = NAN \/ b = NAN THEN NAN
  ELSE IF (a >= 0) = (b >= 0) THEN Mul28(Abs(a), Abs(b))
       ELSE -Mul28(Abs(a), Abs(b))

\* the C quotient a/b at scale 2^28, for 0 <= a <= b <= 2^27: long division,
\* four bits a step
RECURSIVE DivStep(_, _, _, _)
DivStep(a, b, q, n) ==
  IF n = 0 THEN q
  ELSE DivStep((16 * a) % b, b, 16 * q + ((16 * a) \div b), n - 1)

Div28(a, b) == IF a = b THEN P28 ELSE DivStep(a, b, 0, 7)

\* e^r for 0 <= r < ln 2, both at scale 2^28 (Taylor series, Horner form)
RECURSIVE ExpHorner(_, _, _)
ExpHorner(r, acc, i) ==
  IF i = 0 THEN acc
  ELSE ExpHorner(r, P28 + (Mul28(r, acc) \div i), i - 1)

ExpFrac(r) == ExpHorner(r, P28, 12)

\* e^(-a) at scale 2^28 for a >= 0 at scale 2^24: 2^n * e^r with -a = n ln2 + r
ExpNeg(a) ==
  LET n == (-a) \div LN2
      r == (-a) - n * LN2
      m == ExpFrac(16 * r)
  IN  IF -n >= 30 THEN 0 ELSE m \div (2^(-n))

\* tanh(x/2) at scale 2^28, x an LLR: 1 - 2u/(1 + u) with u = e^-|x|, odd in x
TanhHalf(x) ==
  IF x = NAN THEN NAN
  ELSE IF x = PINF THEN P28
  ELSE IF x = NINF THEN -P28
  ELSE LET u == ExpNeg(Abs(x))
           t == P28 - Div28(u \div 2, (P28 + u) \div 4)
       IN  IF x >= 0 THEN t ELSE -t

\* number of doublings that bring a in [1, 2^28) into [2^28, 2^29)
RECURSIVE NormShift(_)
NormShift(a) == IF a >= P28 THEN 0 ELSE 1 + NormShift(2 * a)

\* 2 atanh(z) for |z| <= 1/3 at scale 2^28: 2z(1 + w/3 + w^2/5 + ...), w = z^2
RECURSIVE AtanhHorner(_, _, _)
AtanhHorner(w, acc, k) ==
  IF k = 0 THEN P28 + Mul28(w, acc)
  ELSE AtanhHorner(w, (P28 \div (2 * k + 1)) + Mul28(w, acc), k - 1)

Atanh2(z) ==
  LET a == Abs(z)
      r == 2 * Mul28(a, AtanhHorner(Mul28(a, a), P28 \div 15, 6))
  IN  IF z >= 0 THEN r ELSE -r

\* log(A/B) at scale 2^24 for A, B in [0, 2^29] at a common scale:
\* x/0 is +inf and log(+inf) = +inf; log(0) = -inf; 0/0 is NaN
LogRatio(A, B) ==
  IF A = 0 /\ B = 0 THEN NAN
  ELSE IF B = 0 THEN PINF
  ELSE IF A = 0 THEN NINF
  ELSE LET ea == IF A >= P29 THEN -1 ELSE NormShift(A)
           eb == IF B >= P29 THEN -1 ELSE NormShift(B)
           a  == IF A >= P29 THEN A \div 2 ELSE A * 2^ea
           b  == IF B >= P29 THEN B \div 2 ELSE B * 2^eb
           z  == Div28(Abs(a - b) \div 8, (a + b) \div 8)
       IN  (eb - ea) * LN2 + (Atanh2(IF a >= b THEN z ELSE -z) \div 16)

\* the C sum a + b of two doubles holding LLRs
Add(a, b) ==
  IF a = NAN \/ b = NAN THEN NAN
  ELSE IF a = PINF \/ a = NINF THEN (IF b = -a THEN NAN ELSE a)
  ELSE IF b = PINF \/ b = NINF THEN b
  ELSE a + b

\* the C comparison x < 0 (false for NaN)
IsNegative(x) == x # NAN /\ x < 0


(***************************************************************************)
(* binary64 arithmetic on priors: a value is <<h, m, l>>, the integer      *)
(* h*2^40 + m*2^20 + l counting units of 2^-60.  Intermediate results      *)
(* carry a fourth, leading limb k for the integer part.                    *)
(***************************************************************************)
RECURSIVE BitLen(_)
BitLen(n) == IF n = 0 THEN 0 ELSE 1 + BitLen(n \div 2)

\* propagate the carries of <<k, h, m, l>> so that h, m, l < 2^20
Carry4(k, h, m, l) ==
  LET m2 == m + (l \div P20)
      h2 == h + (m2 \div P20)
  IN  <<k + (h2 \div P20), h2 % P20, m2 % P20, l % P20>>

\* round an exact result to 53 significant bits, ties to even
Round53(n) ==
  LET bl == IF n[1] > 0 THEN 60 + BitLen(n[1])
            ELSE IF n[2] > 0 THEN 40 + BitLen(n[2]) ELSE 0
      d  == bl - 53
      q  == n[4] \div (2^d)
      r  == n[4] % (2^d)
      up == r > 2^(d-1) \/ (r = 2^(d-1) /\ q % 2 = 1)
  IN  IF d <= 0 THEN n
      ELSE Carry4(n[1], n[2], n[3], (IF up THEN q + 1 ELSE q) * 2^d)

\* the exact product x * 100
Mul100(x) ==
  LET l2 == x[3] * 100
      m2 == x[2] * 100 + (l2 \div P20)
      h2 == x[1] * 100 + (m2 \div P20)
  IN  <<h2 \div P20, h2 % P20, m2 % P20, l2 % P20>>

\* floor(x*100): the double product is rounded before floor() sees it
FloorTimes100(x) == Round53(Mul100(x))[1]

\* the double k/100 for an integer 0 <= k <= 99: long division of k*2^s by
\* 100 with s chosen so that the quotient has 53 bits, then rounding
Div100(k) ==
  IF k = 0 THEN <<0, 0, 0>>
  ELSE LET e  == BitLen((k * 128) \div 100)
           T  == k * 2^(20 - e)
           q2 == T \div 100
           r2 == T % 100
           q1 == (r2 * P20) \div 100
           r1 == (r2 * P20) % 100
           q0 == (r1 * P20) \div 100
           r0 == (r1 * P20) % 100
           up == 2 * r0 > 100 \/ (2 * r0 = 100 /\ q0 % 2 = 1)
           n  == Carry4(0, q2 * 2^e, q1 * 2^e, (IF up THEN q0 + 1 ELSE q0) * 2^e)
       IN  <<n[2], n[3], n[4]>>

\* the double sum a + b and difference a - b (a >= b) of values below 1
AddD(a, b) ==
  LET n == Round53(Carry4(0, a[1] + b[1], a[2] + b[2], a[3] + b[3]))
  IN  <<n[2], n[3], n[4]>>

SubD(a, b) ==
  LET l  == a[3] - b[3]
      m  == a[2] - b[2] - (IF l < 0 THEN 1 ELSE 0)
      h  == a[1] - b[1] - (IF m < 0 THEN 1 ELSE 0)
      n  == Round53(<<0, h, m % P20, l % P20>>)
  IN  <<n[2], n[3], n[4]>>

\* the double comparison a < b
LessD(a, b) ==
  \/ a[1] < b[1]
  \/ a[1] = b[1] /\ a[2] < b[2]
  \/ a[1] = b[1] /\ a[2] = b[2] /\ a[3] < b[3]

\* the literals 0.01, 0.99 and 0.50 as the compiler rounds them
D001 == Div100(1)
D099 == Div100(99)
D050 == Div100(50)

\* a probability at scale 2^28 stored into a double, and read back
ToDouble(p) == <<p \div 256, (p % 256) * 4096, 0>>
FromDouble(d) == d[1] * 256 + (d[2] \div 4096)

(***************************************************************************)
(* The program's constants.                                                *)
(***************************************************************************)
\* const uint8_t matrix[4][6]
MatrixRows ==
  << <<1, 1, 0, 1, 0, 0>>,
     <<0, 1, 1, 0, 1, 0>>,
     <<1, 0, 0, 0, 1, 1>>,
     <<0, 0, 1, 1, 0, 1>> >>

n_c == Len(MatrixRows)
n_v == Len(MatrixRows[1])
Checks == 0 .. n_c - 1
Variables == 0 .. n_v - 1

Matrix == [c \in Checks |-> [v \in Variables |-> MatrixRows[c + 1][v + 1]]]

\* double initial_r[] = { -0.5, 2.50, -4.0, 5.0, -3.5, 2.5 }
initial_r ==
  << -(P24 \div 2), 5 * (P24 \div 2), -4 * P24, 5 * P24, -7 * (P24 \div 2), 5 * (P24 \div 2) >>

N_ITERATIONS == 8
iterations == N_ITERATIONS
Rounds == 0 .. iterations - 1

NULL == -1

\* TLC builds a function constructor lazily and would re-evaluate its body at
\* every application; comparing the function evaluates it once and for all.
Eval(f) == IF f = f THEN f ELSE f

(***************************************************************************)
(* Little helper functions                                                 *)
(***************************************************************************)
\* exp(l)/(1+exp(l)), l at scale 2^24, result at scale 2^28
l_to_p(l) ==
  LET n == l \div LN2
      m == ExpFrac(16 * (l - n * LN2))
      e == IF n < 0 THEN m \div (2^(-n)) ELSE m
      o == IF n < 0 THEN P28 ELSE P28 \div (2^n)
  IN  Div28(e \div 8, (o + e) \div 8)

\* log(p/(1-p)) of a double p in [0,1]
p_to_l(p) == LogRatio(FromDouble(p), P28 - FromDouble(p))


(***************************************************************************)
(* The session (struct state) and the history (the list of struct          *)
(* iteration hanging off first_iteration, held here as a function of the   *)
(* position in the list).                                                  *)
(***************************************************************************)
VARIABLES
  matrix,           \* s->matrix
  cursor,           \* s->cursor
  page,             \* s->page
  channel,          \* s->channel: the priors, binary64
  channel_llr,      \* s->channel_llr
  first_iteration,  \* the list of round snapshots
  pc,               \* where main() is: "solve", "display", "keys" (in getch),
                    \* "switch" (process_keys after getch), "done"
  key,              \* process_keys' local: what getch() returned
  screen,           \* what state_display last drew
  count             \* keys counted against the bound of the specification

vars == <<matrix, cursor, page, channel, channel_llr, first_iteration,
          pc, key, screen, count>>

\* what malloc'ed storage may hold before it is written
JunkDoubles == {0, NAN}
JunkBytes == {0, 255}

\* a node as add_iteration leaves it: allocated, nothing written
add_iteration(jd, jb) ==
  [ message_v_to_c |-> [c \in Checks |-> [v \in Variables |-> jd]],
    l              |-> [v \in Variables |-> jd],
    message_c_to_v |-> [c \in Checks |-> [v \in Variables |-> jd]],
    codeword       |-> [v \in Variables |-> jb],
    parity         |-> [c \in Checks |-> jb] ]

\* the fields state_new sets, for the compiled-in matrix M
state_new(M, n_i, jd, jb) ==
  [ cursor  |-> 0,
    page    |-> 0,
    channel |-> [i \in Variables |->
                   IF i < Len(initial_r) THEN ToDouble(l_to_p(initial_r[i + 1]))
                   ELSE D050],
    channel_llr |-> [i \in Variables |-> jd],
    matrix  |-> [j \in Checks |-> [i \in Variables |-> M[j][i]]],
    first_iteration |-> [r \in 0 .. n_i - 1 |-> add_iteration(jd, jb)] ]

\* tanh(iteration->message_c_to_v[c][i]/2) for every entry calc_message_v_to_c
\* reads.  The code evaluates it inside the loop of each call; it depends on
\* the entry alone, so it is evaluated here once per entry.
Tanhs(M, iteration) ==
  Eval([c \in Checks |->
         Eval([i \in Variables |->
                IF M[c][i] # 0 THEN TanhHalf(iteration.message_c_to_v[c][i]) ELSE 0])])

\* the loop of calc_message_v_to_c from index i on, t being the product so far
RECURSIVE TanhProduct(_, _, _, _, _, _)
TanhProduct(M, th, v, c, i, t) ==
  IF i >= n_v THEN t
  ELSE TanhProduct(M, th, v, c, i + 1,
         IF i # v /\ M[c][i] # 0 THEN SMul28(t, th[c][i]) ELSE t)

\* line 270 without `i != v`: the recipient's own message enters the product
calc_message_v_to_c_all(M, th, v, c) ==
  LET t == TanhProduct(M, th, n_v, c, 0, P28)
  IN  IF t = NAN THEN NAN ELSE LogRatio(P28 + t, P28 - t)
\* line 274 with the quotient upside down: log((1-t)/(1+t))
calc_message_v_to_c_neg(M, th, v, c) ==
  LET t == TanhProduct(M, th, v, c, 0, P28)
  IN  IF t = NAN THEN NAN ELSE LogRatio(P28 - t, P28 + t)
\* calc_message_v_to_c(s, iteration, v, c), th being Tanhs(s->matrix, iteration)
calc_message_v_to_c(M, th, v, c) ==
  LET t == TanhProduct(M, th, v, c, 0, P28)
  IN  IF t = NAN THEN NAN ELSE LogRatio(P28 + t, P28 - t)

\* the loop of calc_message_c_to_v from index i on, p being the sum so far
RECURSIVE MessageSum(_, _, _, _, _, _)
MessageSum(M, iteration, v, c, i, p) ==
  IF i >= n_c THEN p
  ELSE MessageSum(M, iteration, v, c, i + 1,
         IF i # c /\ M[i][v] = 1
         THEN Add(p, iteration.message_v_to_c[i][v])
         ELSE p)

calc_message_c_to_v(M, llr, iteration, v, c) ==
  MessageSum(M, iteration, v, c, 0, llr[v])

\* uint8_t x ^= b for b in {0, 1}
Xor8(x, b) == IF b = 0 THEN x ELSE IF x % 2 = 0 THEN x + 1 ELSE x - 1

\* state_solve, lines 295-299: the first node's incoming messages
SeedFirst(llr, node) ==
  [node EXCEPT !.message_c_to_v = [c \in Checks |-> [v \in Variables |-> llr[v]]]]

\* lines 303-307
CheckUpdate(M, current) ==
  LET th == Tanhs(M, current)
  IN  [current EXCEPT !.message_v_to_c =
         Eval([c \in Checks |->
                Eval([v \in Variables |-> calc_message_v_to_c(M, th, v, c)])])]

\* state_solve without lines 309-311: the parity the node held stays
ResetParity_kept(current) ==
  current
\* lines 309-311
ResetParity(current) ==
  [current EXCEPT !.parity = [i \in Checks |-> 0]]

\* lines 314-318: the sum over the checks from index i on
RECURSIVE BeliefSum(_, _, _, _, _)
BeliefSum(M, current, v, i, acc) ==
  IF i >= n_c THEN acc
  ELSE BeliefSum(M, current, v, i + 1,
         IF M[i][v] # 0 THEN Add(acc, current.message_v_to_c[i][v]) ELSE acc)

\* lines 313-325 with the test of line 315 dropped: every check is summed
DecideOne_every_check(M, llr, current, v) ==
  LET lv == BeliefSum([i \in Checks |-> [j \in Variables |-> 1]], current, v, 0, llr[v])
      b  == IF IsNegative(lv) THEN 1 ELSE 0
  IN  [current EXCEPT
         !.l[v] = lv,
         !.codeword[v] = b,
         !.parity = [i \in Checks |->
                       IF M[i][v] # 0 THEN Xor8(current.parity[i], b)
                       ELSE current.parity[i]]]
\* lines 313-325: the body of the loop, for variable v
DecideOne(M, llr, current, v) ==
  LET lv == BeliefSum(M, current, v, 0, llr[v])
      b  == IF IsNegative(lv) THEN 1 ELSE 0
  IN  [current EXCEPT
         !.l[v] = lv,
         !.codeword[v] = b,
         !.parity = [i \in Checks |->
                       IF M[i][v] # 0 THEN Xor8(current.parity[i], b)
                       ELSE current.parity[i]]]

\* lines 312-326: the loop over the variables from v on
RECURSIVE Decide(_, _, _, _)
Decide(M, llr, current, v) ==
  IF v >= n_v THEN current
  ELSE Decide(M, llr, DecideOne(M, llr, current, v), v + 1)

\* lines 328-334 left out: the next node keeps the messages it held
PrepareNext_stale(M, llr, current, next) ==
  next
\* lines 328-334: the next node's incoming messages
PrepareNext(M, llr, current, next) ==
  [next EXCEPT !.message_c_to_v =
     Eval([c \in Checks |->
            Eval([v \in Variables |-> calc_message_c_to_v(M, llr, current, v, c)])])]

\* lines 302-336: the while loop, `current` being node r of the list
RECURSIVE SolveFrom(_, _, _, _)
SolveFrom(M, llr, list, r) ==
  LET current == Decide(M, llr, ResetParity(CheckUpdate(M, list[r])), 0)
      written == [list EXCEPT ![r] = current]
  IN  IF r + 1 \in DOMAIN list
      THEN SolveFrom(M, llr,
             [written EXCEPT ![r + 1] = PrepareNext(M, llr, current, list[r + 1])],
             r + 1)
      ELSE written

\* state_solve: the new channel_llr and list
state_solve(M, ch, list) ==
  LET llr == Eval([i \in Variables |-> p_to_l(ch[i])])
  IN  [ channel_llr |-> llr,
        first_iteration |->
          IF DOMAIN list = {} THEN list
          ELSE SolveFrom(M, llr, [list EXCEPT ![0] = SeedFirst(llr, list[0])], 0) ]

(***************************************************************************)
(* state_display: the walk to the viewed node and what is drawn from it.   *)
(***************************************************************************)
\* lines 110-114
RECURSIVE Walk(_, _, _)
Walk(list, current, i) ==
  IF i <= 0 THEN current
  ELSE Walk(list,
            IF current # NULL
            THEN (IF current + 1 \in DOMAIN list THEN current + 1 ELSE NULL)
            ELSE current,
            i - 1)

state_display(list, pg) ==
  LET current == Walk(list, IF 0 \in DOMAIN list THEN 0 ELSE NULL, pg)
  IN  [ current |-> current,
        valid   |-> current # NULL /\ \A i \in Checks : list[current].parity[i] = 0 ]

(***************************************************************************)
(* process_keys                                                            *)
(***************************************************************************)
KEY_PPAGE == "KEY_PPAGE"
KEY_NPAGE == "KEY_NPAGE"
KEY_LEFT  == "KEY_LEFT"
KEY_RIGHT == "KEY_RIGHT"
KEY_UP    == "KEY_UP"
KEY_DOWN  == "KEY_DOWN"

\* lines 391-395
nudge_KEY_UP(p) ==
  LET f == Div100(FloorTimes100(p))
  IN  IF LessD(D001, f) THEN SubD(f, D001) ELSE D001

\* lines 399-403
nudge_KEY_DOWN(p) ==
  LET f == Div100(FloorTimes100(p))
  IN  IF LessD(f, D099) THEN AddD(f, D001) ELSE D099

\* main, line 444, with G the compiled-in matrix
InitOn(G) ==
  \E jd \in JunkDoubles, jb \in JunkBytes :
    LET s == state_new(G, N_ITERATIONS, jd, jb)
    IN  /\ matrix = s.matrix
        /\ cursor = s.cursor
        /\ page = s.page
        /\ channel = s.channel
        /\ channel_llr = s.channel_llr
        /\ first_iteration = s.first_iteration
        /\ pc = "solve"
        /\ key = "none"
        /\ screen = [current |-> NULL, valid |-> FALSE]
        /\ count = 0

Init == InitOn(Matrix)

\* main, line 445
MainSolve ==
  /\ pc = "solve"
  /\ LET s == state_solve(matrix, channel, first_iteration)
     IN  /\ channel_llr' = s.channel_llr
         /\ first_iteration' = s.first_iteration
  /\ pc' = "display"
  /\ UNCHANGED <<matrix, cursor, page, channel, key, screen>>

\* main, line 448
Display ==
  /\ pc = "display"
  /\ screen' = state_display(first_iteration, page)
  /\ pc' = "keys"
  /\ UNCHANGED <<matrix, cursor, page, channel, channel_llr, first_iteration, key>>

\* what getch() may return: the keys the switch names, and one it does not
Keys == {"ESC", "q", "Q", KEY_PPAGE, KEY_NPAGE, KEY_LEFT, KEY_RIGHT, KEY_UP, KEY_DOWN, "other"}
NudgeKeys == {KEY_UP, KEY_DOWN}

\* process_keys, line 364: getch() returns k
GetKey(k) ==
  /\ pc = "keys"
  /\ key' = k
  /\ pc' = "switch"
  /\ UNCHANGED <<matrix, cursor, page, channel, channel_llr, first_iteration, screen>>

\* lines 366-369: return 0, the loop of main ends and state_delete frees all
KeyQuit ==
  /\ pc = "switch"
  /\ key \in {"ESC", "q", "Q"}
  /\ pc' = "done"
  /\ key' = "none"
  /\ UNCHANGED <<matrix, cursor, page, channel, channel_llr, first_iteration, screen>>

\* lines 371-373
KeyPPage ==
  /\ pc = "switch"
  /\ key = KEY_PPAGE
  /\ page' = IF page > 0 THEN page - 1 ELSE page
  /\ pc' = "display"
  /\ key' = "none"
  /\ UNCHANGED <<matrix, cursor, channel, channel_llr, first_iteration, screen>>

\* lines 375-377 with `<=` for `<`
KeyNPage_past_the_end ==
  /\ pc = "switch"
  /\ key = KEY_NPAGE
  /\ page' = IF page <= iterations - 1 THEN page + 1 ELSE page
  /\ pc' = "display"
  /\ key' = "none"
  /\ UNCHANGED <<matrix, cursor, channel, channel_llr, first_iteration, screen>>
\* lines 375-377
KeyNPage ==
  /\ pc = "switch"
  /\ key = KEY_NPAGE
  /\ page' = IF page < iterations - 1 THEN page + 1 ELSE page
  /\ pc' = "display"
  /\ key' = "none"
  /\ UNCHANGED <<matrix, cursor, channel, channel_llr, first_iteration, screen>>

\* lines 379-383
KeyLeft ==
  /\ pc = "switch"
  /\ key = KEY_LEFT
  /\ cursor' = IF cursor = 0 THEN n_v - 1 ELSE cursor - 1
  /\ pc' = "display"
  /\ key' = "none"
  /\ UNCHANGED <<matrix, page, channel, channel_llr, first_iteration, screen>>

\* lines 385-389 without the break of line 389: control falls into KEY_UP
KeyRight_fallthrough ==
  /\ pc = "switch"
  /\ key = KEY_RIGHT
  /\ cursor' = IF cursor = n_v - 1 THEN 0 ELSE cursor + 1
  /\ channel' = [channel EXCEPT ![cursor'] = nudge_KEY_UP(channel[cursor'])]
  /\ LET s == state_solve(matrix, channel', first_iteration)
     IN  /\ channel_llr' = s.channel_llr
         /\ first_iteration' = s.first_iteration
  /\ pc' = "display"
  /\ key' = "none"
  /\ UNCHANGED <<matrix, page, screen>>
\* lines 385-389
KeyRight ==
  /\ pc = "switch"
  /\ key = KEY_RIGHT
  /\ cursor' = IF cursor = n_v - 1 THEN 0 ELSE cursor + 1
  /\ pc' = "display"
  /\ key' = "none"
  /\ UNCHANGED <<matrix, page, channel, channel_llr, first_iteration, screen>>

\* lines 391-397
KeyUp ==
  /\ pc = "switch"
  /\ key = KEY_UP
  /\ channel' = [channel EXCEPT ![cursor] = nudge_KEY_UP(channel[cursor])]
  /\ LET s == state_solve(matrix, channel', first_iteration)
     IN  /\ channel_llr' = s.channel_llr
         /\ first_iteration' = s.first_iteration
  /\ pc' = "display"
  /\ key' = "none"
  /\ UNCHANGED <<matrix, cursor, page, screen>>

\* lines 399-406 without the state_solve of line 405
KeyDown_unsolved ==
  /\ pc = "switch"
  /\ key = KEY_DOWN
  /\ channel' = [channel EXCEPT ![cursor] = nudge_KEY_DOWN(channel[cursor])]
  /\ pc' = "display"
  /\ key' = "none"
  /\ UNCHANGED <<matrix, cursor, page, channel_llr, first_iteration, screen>>
\* lines 399-406
KeyDown ==
  /\ pc = "switch"
  /\ key = KEY_DOWN
  /\ channel' = [channel EXCEPT ![cursor] = nudge_KEY_DOWN(channel[cursor])]
  /\ LET s == state_solve(matrix, channel', first_iteration)
     IN  /\ channel_llr' = s.channel_llr
         /\ first_iteration' = s.first_iteration
  /\ pc' = "display"
  /\ key' = "none"
  /\ UNCHANGED <<matrix, cursor, page, screen>>

\* a key the switch has no case for: line 409
KeyOther ==
  /\ pc = "switch"
  /\ key = "other"
  /\ pc' = "display"
  /\ key' = "none"
  /\ UNCHANGED <<matrix, cursor, page, channel, channel_llr, first_iteration, screen>>

\* the switch of process_keys
Switch ==
  \/ KeyQuit
  \/ KeyPPage
  \/ KeyNPage
  \/ KeyLeft
  \/ KeyRight
  \/ KeyUp
  \/ KeyDown
  \/ KeyOther

(***************************************************************************)
(* Spec: the program, any navigation, at most MaxNudges nudges.            *)
(***************************************************************************)
MaxNudges == 1

Next ==
  \/ MainSolve /\ UNCHANGED count
  \/ Display /\ UNCHANGED count
  \/ \E k \in Keys \ NudgeKeys : GetKey(k) /\ UNCHANGED count
  \/ \E k \in NudgeKeys : count < MaxNudges /\ GetKey(k) /\ count' = count + 1
  \/ Switch /\ UNCHANGED count

Spec == Init /\ [][Next]_vars

(***************************************************************************)
(* SpecKeys: the program, at most MaxKeys keys of any kind.                *)
(***************************************************************************)
MaxKeys == 4

NextKeys ==
  \/ MainSolve /\ UNCHANGED count
  \/ Display /\ UNCHANGED count
  \/ \E k \in Keys : count < MaxKeys /\ GetKey(k) /\ count' = count + 1
  \/ Switch /\ UNCHANGED count

SpecKeys == Init /\ [][NextKeys]_vars

(***************************************************************************)
(* SpecGraph: the program built with other matrices of the same size, among *)
(* them one with a variable and one with a check that has no edge.          *)
(***************************************************************************)
NoEdgeVariable == [c \in Checks |-> [v \in Variables |-> IF v = 0 THEN 0 ELSE Matrix[c][v]]]
NoEdgeCheck == [c \in Checks |-> [v \in Variables |-> IF c = 0 THEN 0 ELSE Matrix[c][v]]]
Graphs == {Matrix, NoEdgeVariable, NoEdgeCheck}

InitGraph == \E G \in Graphs : InitOn(G)

SpecGraph == InitGraph /\ [][NextKeys]_vars

(***************************************************************************)
(* SpecMsg: the two message rules as functions.  The list holds two nodes   *)
(* whose messages are equal but for the pair (c, v) = (page, cursor), and   *)
(* one of the rules is applied for that pair to both, as lines 305 and 331  *)
(* do, the result stored where the code stores it.                          *)
(***************************************************************************)
\* LLRs the messages are drawn from
Vals == << 0, P24 \div 2, -(3 * P24), 5 * (P24 \div 2), PINF, -(P24 \div 4), 7 * P24 >>
Perturbations == {0, 9 * P24, NINF, NAN}
MaxPatterns == 2

Pattern(k, c, i) == Vals[(((c * n_v + i) * k + 4 * c) % Len(Vals)) + 1]

InitMsg ==
  \E c \in Checks, v \in Variables, k \in 1 .. MaxPatterns, x \in Perturbations :
    LET s == state_new(Matrix, 2, 0, 0)
        a == [ s.first_iteration[0] EXCEPT
                 !.message_c_to_v = [j \in Checks |-> [i \in Variables |-> Pattern(k, j, i)]],
                 !.message_v_to_c = [j \in Checks |-> [i \in Variables |-> Pattern(k, j, i + 1)]] ]
        b == [ a EXCEPT !.message_c_to_v[c][v] = x, !.message_v_to_c[c][v] = x ]
    IN  /\ x # a.message_c_to_v[c][v]
        /\ x # a.message_v_to_c[c][v]
        /\ matrix = s.matrix
        /\ cursor = v
        /\ page = c
        /\ channel = s.channel
        /\ channel_llr = [i \in Variables |-> p_to_l(s.channel[i])]
        /\ first_iteration = [r \in 0 .. 1 |-> IF r = 0 THEN a ELSE b]
        /\ pc = "inputs"
        /\ key = "none"
        /\ screen = [current |-> NULL, valid |-> FALSE]
        /\ count = 0

\* line 305 for the pair, on each node
ApplyCheckRule ==
  /\ pc = "inputs"
  /\ first_iteration' =
       [r \in DOMAIN first_iteration |->
          [first_iteration[r] EXCEPT !.message_v_to_c[page][cursor] =
             calc_message_v_to_c(matrix, Tanhs(matrix, first_iteration[r]), cursor, page)]]
  /\ pc' = "check message"
  /\ UNCHANGED <<matrix, cursor, page, channel, channel_llr, key, screen, count>>

\* line 331 for the pair, on each node
ApplyVariableRule ==
  /\ pc = "inputs"
  /\ first_iteration' =
       [r \in DOMAIN first_iteration |->
          [first_iteration[r] EXCEPT !.message_c_to_v[page][cursor] =
             calc_message_c_to_v(matrix, channel_llr, first_iteration[r], cursor, page)]]
  /\ pc' = "variable message"
  /\ UNCHANGED <<matrix, cursor, page, channel, channel_llr, key, screen, count>>

NextMsg ==
  \/ ApplyCheckRule
  \/ ApplyVariableRule

SpecMsg == InitMsg /\ [][NextMsg]_vars

(***************************************************************************)
(* Definitions the properties are stated with.  They are written from the  *)
(* mathematics of the decoder (sets of neighbours, sums and products over  *)
(* them), not from the loops of state_solve.                               *)
(***************************************************************************)
\* the variables check c covers, and the checks variable v takes part in
variables_of(M, c) == {v \in Variables : M[c][v] = 1}
checks_of(M, v) == {c \in Checks : M[c][v] = 1}

\* the sum of f over the finite set S, in the arithmetic of doubles
RECURSIVE SumOver(_, _)
SumOver(S, f) ==
  IF S = {} THEN 0
  ELSE LET e == CHOOSE e \in S : TRUE
       IN  Add(f[e], SumOver(S \ {e}, f))

\* the XOR of the bits b[v] over v in S
XorOver(S, b) == Cardinality({v \in S : b[v] % 2 = 1}) % 2

\* a decode has run: main is past its first state_solve
Decoded == pc # "solve"

\* C1: in every round snapshot the stored parity of check c is the XOR of
\* that snapshot's codeword over the variables c covers, also after a re-run
\* over storage that held an earlier run's parity.
C1_SyndromeIsXorOfCodeword ==
  Decoded =>
    \A r \in Rounds : \A c \in Checks :
      first_iteration[r].parity[c] =
        XorOver(variables_of(matrix, c), first_iteration[r].codeword)

\* a re-run has happened: check 0 of round 0, whose storage held the first
\* run's parity 1, holds 1 again, and round 2, whose storage held the first
\* run's all-zero parity, now holds a parity that is not zero
C1_Witness ==
  /\ count >= 1
  /\ pc = "display"
  /\ first_iteration[0].parity[0] = 1
  /\ \E c \in Checks : first_iteration[2].parity[c] = 1

\* C3: in every round snapshot l[v] is the channel LLR of v plus the sum of
\* the round's check messages over exactly the checks connected to v, and
\* codeword[v] is 1 exactly when l[v] < 0 (so 0 for a belief of 0).
C3_BeliefAndHardDecision ==
  Decoded =>
    \A r \in Rounds : \A v \in Variables :
      /\ first_iteration[r].l[v] =
           Add(channel_llr[v],
               SumOver(checks_of(matrix, v),
                       [c \in Checks |-> first_iteration[r].message_v_to_c[c][v]]))
      /\ first_iteration[r].codeword[v] =
           IF first_iteration[r].l[v] # NAN /\ first_iteration[r].l[v] < 0
           THEN 1 ELSE 0

\* after a nudge, a round holds a negative belief decoded to 1 and a positive
\* belief decoded to 0
C3_Witness ==
  /\ count >= 1
  /\ pc = "display"
  /\ \E r \in Rounds : \E v, w \in Variables :
       /\ first_iteration[r].l[v] < 0 /\ first_iteration[r].codeword[v] = 1
       /\ first_iteration[r].l[w] > 0 /\ first_iteration[r].codeword[w] = 0

\* C8: with the compiled-in matrix and initial LLRs, the first state_solve
\* over 8 rounds leaves a final round whose parity is all zero.
C8_ExampleConverges ==
  (Decoded /\ count = 0) =>
    \A c \in Checks : first_iteration[iterations - 1].parity[c] = 0

\* the first decode has run over the 8 rounds; its first round is not yet a
\* codeword and its last round holds the codeword 0 0 1 0 1 1
C8_Witness ==
  /\ pc = "display"
  /\ count = 0
  /\ iterations = 8
  /\ \E c \in Checks : first_iteration[0].parity[c] = 1
  /\ first_iteration[iterations - 1].codeword =
       [v \in Variables |-> IF v \in {2, 4, 5} THEN 1 ELSE 0]

\* the product, in the order of the indices, of tanh(f[i]/2) over i in S,
\* t being the product so far
RECURSIVE TanhProductOver(_, _, _)
TanhProductOver(S, f, t) ==
  IF S = {} THEN t
  ELSE LET e == CHOOSE e \in S : \A o \in S : e <= o
       IN  TanhProductOver(S \ {e}, f, SMul28(t, TanhHalf(f[e])))

\* the message of check c to variable v from the incoming messages `incoming`:
\* 2 atanh of the product of tanh(incoming/2) over the other variables of c
CheckMessage(M, incoming, c, v) ==
  LET t == TanhProductOver(variables_of(M, c) \ {v}, incoming[c], P28)
  IN  IF t = NAN THEN NAN ELSE LogRatio(P28 + t, P28 - t)

\* the message of variable v to check c: the channel LLR of v plus the
\* messages `checkmsgs` of the other checks of v
VariableMessage(M, llr, checkmsgs, c, v) ==
  Add(llr[v], SumOver(checks_of(M, v) \ {c}, [i \in Checks |-> checkmsgs[i][v]]))

Edges(M) == {e \in Checks \X Variables : M[e[1]][e[2]] = 1}

\* the history `list` is one flooding schedule on the graph M from the
\* channel LLRs llr
FloodingSchedule(M, llr, list) ==
  /\ DOMAIN list = Rounds
  /\ \A e \in Edges(M) :
       LET c == e[1]
           v == e[2]
       IN  /\ list[0].message_c_to_v[c][v] = llr[v]
           /\ \A r \in Rounds :
                list[r].message_v_to_c[c][v] =
                  CheckMessage(M, list[r].message_c_to_v, c, v)
           /\ \A r \in Rounds \ {0} :
                list[r].message_c_to_v[c][v] =
                  VariableMessage(M, llr, list[r - 1].message_v_to_c, c, v)

\* C4: every step that decodes (the first state_solve, or any step that
\* writes the history) leaves a history in which, on every edge, round 0's
\* incoming value is the channel LLR, each round's check message is computed
\* from that round's incoming values, the incoming values of round r > 0 are
\* the variable messages built from round r-1's check messages, and nothing is
\* prepared beyond the last round.  The history changes in no other step, so
\* this holds of every history the viewer reads.
C4_FloodingDataFlow ==
  [][(pc = "solve" \/ first_iteration' # first_iteration)
       => FloodingSchedule(matrix', channel_llr', first_iteration')]_vars

\* a re-run after a nudge has happened, and round 1's incoming value on the
\* edge (0,0) differs from the channel LLR that round 0 used there
C4_Witness ==
  /\ count >= 1
  /\ pc = "display"
  /\ first_iteration[0].message_c_to_v[0][0] = channel_llr[0]
  /\ first_iteration[1].message_c_to_v[0][0] # channel_llr[0]
  /\ first_iteration[iterations - 1].message_v_to_c[0][0] \notin {NAN, PINF, NINF}

\* llr and the history `list` are those of a decode from scratch of the
\* priors ch on the graph M, on storage nothing was written to
FreshDecode(M, ch, llr, list) ==
  LET fresh == state_solve(M, ch, [r \in Rounds |-> add_iteration(NAN, 255)])
  IN  /\ llr = [v \in Variables |-> p_to_l(ch[v])]
      /\ llr = fresh.channel_llr
      /\ list = fresh.first_iteration

\* C6: every step that enters the display loop for the first time or writes a
\* prior, a channel LLR or a snapshot ends in a state where channel_llr is the
\* LLR of the current priors and the snapshots are those of a decode from
\* scratch of these priors.  The other steps write none of them, so this holds
\* at every call of state_display.
C6_DisplayedStateIsFreshDecode ==
  [][(pc = "solve" \/ <<matrix, channel, channel_llr, first_iteration>>' #
                      <<matrix, channel, channel_llr, first_iteration>>)
       => FreshDecode(matrix', channel', channel_llr', first_iteration')]_vars

\* state_display is about to run after a nudge changed a prior and the
\* channel LLR of the variable under the cursor
C6_Witness ==
  /\ pc = "display"
  /\ count >= 1
  /\ channel[cursor] \in {Div100(k) : k \in 1 .. 99}
  /\ channel_llr[cursor] = p_to_l(channel[cursor])

\* C7: state_display and every command that is not a nudge (PgUp, PgDn, Left,
\* Right, quit, any other key, and reading the key) leave the priors, the
\* channel LLRs and every snapshot unchanged; so these change only in the
\* first state_solve and in the two nudge handlers.
C7_OnlyNudgesWrite ==
  [][(pc \in {"display", "keys"} \/ (pc = "switch" /\ key \notin NudgeKeys))
       => UNCHANGED <<matrix, channel, channel_llr, first_iteration>>]_vars

\* after the decode, navigation has moved the page and the cursor and
\* state_display has drawn the page
C7_Witness ==
  /\ pc = "keys"
  /\ page = 3
  /\ cursor = 2
  /\ screen.current = 3

\* the four navigation commands at the ends of their ranges
NavigationAtTheEnds ==
  /\ (pc = "switch" /\ key = KEY_PPAGE /\ page = 0) => page' = 0
  /\ (pc = "switch" /\ key = KEY_NPAGE /\ page = iterations - 1) => page' = iterations - 1
  /\ (pc = "switch" /\ key = KEY_LEFT /\ cursor = 0) => cursor' = n_v - 1
  /\ (pc = "switch" /\ key = KEY_RIGHT /\ cursor = n_v - 1) => cursor' = 0

\* C10: page stays in 0 .. iterations-1 and cursor in 0 .. n_v-1, PgUp at 0
\* and PgDn at iterations-1 leaving the page, Left at 0 and Right at n_v-1
\* wrapping the cursor; the history has exactly `iterations` snapshots and
\* state_display always finds the snapshot of the page.
C10_NavigationInRange ==
  /\ [](/\ page \in 0 .. iterations - 1
        /\ cursor \in 0 .. n_v - 1
        /\ Cardinality(DOMAIN first_iteration) = iterations
        /\ state_display(first_iteration, page).current = page
        /\ (pc \in {"keys", "switch"} => screen.current = page))
  /\ [][NavigationAtTheEnds]_vars

\* PgDn is pressed on the last page, drawn from the last snapshot, with the
\* cursor on the last variable
C10_Witness ==
  /\ pc = "switch"
  /\ key = KEY_NPAGE
  /\ page = iterations - 1
  /\ cursor = n_v - 1
  /\ screen.current = iterations - 1

\* the prior state_new gave variable v
InitialPrior(v) == state_new(Matrix, N_ITERATIONS, 0, 0).channel[v]

\* the doubles nearest to k/100, k in 1 .. 99
Grid == {Div100(k) : k \in 1 .. 99}

\* C5 as the specification claims it: after any sequence of commands every
\* prior is strictly inside (0,1) and every nudged prior (one that is no
\* longer the prior state_new computed) is a multiple of 0.01 in [0.01, 0.99].
\* The code does not keep this: floor(x*100)/100 - 0.01 is computed in
\* binary64, and 0.35 - 0.01 is 0.33999999999999997.
C5_NudgedPriorsOnGrid ==
  \A v \in Variables :
    /\ LessD(<<0, 0, 0>>, channel[v])
    /\ channel[v][1] < P20            \* below 1.0, which is <<2^20, 0, 0>>
    /\ (channel[v] # InitialPrior(v) => channel[v] \in Grid)

\* C2: for every pair (c, v), and so for every edge, the check message
\* computed for (c, v) is the same on two nodes that differ only in the
\* incoming value on (c, v), and the variable message prepared for (c, v) is
\* the same on two nodes that differ only in the check message on (c, v).
C2_ExtrinsicExclusion ==
  /\ pc = "check message" =>
       first_iteration[0].message_v_to_c[page][cursor] =
         first_iteration[1].message_v_to_c[page][cursor]
  /\ pc = "variable message" =>
       first_iteration[0].message_c_to_v[page][cursor] =
         first_iteration[1].message_c_to_v[page][cursor]

\* the check rule has been applied for an edge on two nodes whose incoming
\* values on that edge differ, one of them NaN, and has given a finite message
\* that is not zero
C2_Witness ==
  /\ pc = "check message"
  /\ matrix[page][cursor] = 1
  /\ first_iteration[0].message_c_to_v[page][cursor] # NAN
  /\ first_iteration[1].message_c_to_v[page][cursor] = NAN
  /\ first_iteration[0].message_v_to_c[page][cursor] \notin {0, NAN, PINF, NINF}

\* a variable or a check of the graph M has no edge
Degenerate(M) ==
  \/ \E v \in Variables : checks_of(M, v) = {}
  \/ \E c \in Checks : variables_of(M, c) = {}

\* C9 as the specification claims it: a session on a matrix with a variable
\* or a check without edges is rejected before any decode run, so it is never
\* decoded, displayed or steered.  state_new has no such test.
C9_DegenerateGraphRejected ==
  Degenerate(matrix) => pc \notin {"display", "keys", "switch", "done"}
====
